---- MODULE Spec2Model ----
(***************************************************************************)
(* Model of the ingest and indexing engine of u2ckdump (parse_xml.go, the  *)
(* decision index and the refresh driver): Parse streams <content>         *)
(* records, classifies each as added / updated / unchanged against         *)
(* CurrentDump, mutates the entry store and the inverted indexes, and      *)
(* Cleanup sweeps the entries the refresh did not see.                     *)
(***************************************************************************)
EXTENDS Integers, Sequences, FiniteSets, TLC

(***************************************************************************)
(* Bounds of the model.                                                    *)
(***************************************************************************)
\* largest number of <content> records in one dump
MaxRecords == 2

(***************************************************************************)
(* Input universe: ids, timestamps, decisions and child elements of the    *)
(* <content> records a dump may hold.                                      *)
(***************************************************************************)
\* Go zero value of an int64 / of the PackedContent slices
NoTime == 0

\* a child element of <content>: tag, text and the ts attribute (Unix seconds)
El(tag, text, ts) == [tag |-> tag, text |-> text, ts |-> ts]

(***************************************************************************)
(* Value normalizers.                                                      *)
(***************************************************************************)
\* lowercase, strip a leading "*.", trim blanks
NormalizeDomain(s) ==
    CASE s = "A.test"   -> "a.test"
      [] s = "*.a.test" -> "a.test"
      [] OTHER          -> s

\* lowercase scheme and host, path untouched
NormalizeURL(s) ==
    CASE s = "HTTPS://X.test/p" -> "https://x.test/p"
      [] s = "HTTP://x.test/P"  -> "http://x.test/P"
      [] OTHER                  -> s

\* strings.HasPrefix(nURL, "https://")
HasPrefixHTTPS(n) == n \in {"https://x.test/p", "https://y.test/"}

\* dotted quad to a 32-bit integer
IPv4StrToInt(s) ==
    CASE s = "10.0.0.1" -> 167772161
      [] s = "10.0.0.2" -> 167772162
      [] s = "10.0.0.3" -> 167772163
      [] OTHER          -> 0

\* net.ParseIP followed by string(...): the 16 raw bytes, named by their
\* canonical text; upper and lower case hex parse to the same bytes
ParseIP(s) ==
    CASE s = "2001:DB8::1" -> "2001:db8::1"
      [] OTHER             -> s

(***************************************************************************)
(* The byte strings of <content>...</content> elements.  A byte string is   *)
(* named by a number; XMLShapes lists what the XML tokenizer finds in it.   *)
(***************************************************************************)
Shape(blockType, decision, elems) ==
    [wellFormed |-> TRUE, blockType |-> blockType, decision |-> decision, elems |-> elems]

NoDecision == <<"", "", "">>
D1 == <<"org", "1", "2024-01-01">>
D2 == <<"org", "2", "2024-02-02">>

XMLShapes == <<
    \* 1: no resources at all
    Shape("default", D1, << >>),
    \* 2: a <content> whose body does not decode
    [Shape("default", D1, << >>) EXCEPT !.wellFormed = FALSE],
    \* 3..5: IPv4 addresses
    Shape("ip", D1, << El("ip", "10.0.0.1", 1), El("ip", "10.0.0.2", 1) >>),
    Shape("ip", D1, << El("ip", "10.0.0.1", 2) >>),
    Shape("ip", D1, << El("ip", "10.0.0.3", 1) >>),
    \* 6..8: domains, two of them differing only in case
    Shape("domain", D1, << El("domain", "A.test", 1) >>),
    Shape("domain", D1, << El("domain", "a.test", 1) >>),
    Shape("domain", D1, << El("domain", "a.test", 1), El("domain", "b.test", 1) >>),
    \* 9..11: IPv4 and IPv6 subnets
    Shape("ip", D1, << El("ipSubnet", "10.0.0.0/24", 1) >>),
    Shape("ip", D1, << El("ipSubnet", "10.0.0.0/24", 1),
                       El("ipv6Subnet", "2001:db8::/32", 1) >>),
    Shape("ip", D1, << El("ipv6Subnet", "2001:db8:1::/48", 1) >>),
    \* 12..14: URLs
    Shape("default", D1, << El("url", "https://x.test/p", 1) >>),
    Shape("default", D1, << El("url", "HTTPS://X.test/p", 1) >>),
    Shape("default", D1, << El("url", "http://y.test/", 1),
                            El("url", "https://x.test/p", 2) >>),
    \* 15..16: a shared domain, other decisions
    Shape("domain", D2, << El("domain", "x.test", 1) >>),
    Shape("ip", NoDecision, << El("domain", "x.test", 1), El("ipv6", "2001:DB8::1", 1) >>),
    \* 17: the same <ip> element twice
    Shape("ip", D1, << El("ip", "10.0.0.1", 1), El("ip", "10.0.0.1", 1) >>),
    \* 18..19: an <ip> whose text is no dotted quad, beside other resources
    Shape("ip", D1, << El("ip", "10.0.0.300", 1), El("domain", "a.test", 1) >>),
    Shape("ip", D1, << El("ip", "10.0.0.1", 1), El("ip", "10.0.0.300", 1) >>),
    \* 20..22: other values of the blockType attribute
    Shape("", D1, << El("url", "http://z.test/", 1) >>),
    Shape("unknown", D1, << El("url", "https://x.test/p", 1) >>),
    Shape("domain-mask", D1, << El("url", "https://x.test/p", 1) >>)
>>

\* The dumps of one run are drawn from one scenario: the ids of its records,
\* the shapes of their bodies and the update times of its <register>.
ScenarioTable ==
    [ip4    |-> [ids |-> {1},    times |-> {100},      shapes |-> {1, 2, 3, 4, 5}],
     domain |-> [ids |-> {1},    times |-> {100},      shapes |-> {1, 2, 6, 7, 8}],
     subnet |-> [ids |-> {1},    times |-> {100},      shapes |-> {1, 2, 9, 10, 11}],
     url    |-> [ids |-> {1},    times |-> {100},      shapes |-> {1, 2, 12, 13, 14}],
     times  |-> [ids |-> {1},    times |-> {100, 200}, shapes |-> {1, 2, 15}],
     shared |-> [ids |-> {1, 2}, times |-> {100},      shapes |-> {1, 2, 15, 16}],
     repeat |-> [ids |-> {1},    times |-> {100},      shapes |-> {1, 3, 17, 18, 19}],
     block  |-> [ids |-> {1},    times |-> {100},      shapes |-> {12, 14, 20, 21, 22}],
     lock   |-> [ids |-> {1},    times |-> {100},      shapes |-> {1, 2, 15}],
     driver |-> [ids |-> {1},    times |-> {100, 200}, shapes |-> {1, 2}]]

Scenarios == DOMAIN ScenarioTable

\* a byte string, named by its shape and the value of its id attribute
ContBuf(shape, id) == <<shape, id>>
ShapeOf(contBuf) == XMLShapes[contBuf[1]]

\* the byte strings a dump of scenario sc may hold
ContBufs(sc) ==
    { ContBuf(s, id) : s \in ScenarioTable[sc].shapes, id \in ScenarioTable[sc].ids }

\* the values <register updateTime> may have in a dump of scenario sc
UpdateTimes(sc) == ScenarioTable[sc].times

\* getContentId: the id attribute of the <content> start element
getContentId(contBuf) == contBuf[2]

\* hasher64.Reset(); hasher64.Write(b); hasher64.Sum64(): FNV-1a, which sends
\* the byte strings of the universe to distinct numbers
Sum64(b) == ((b[1] * 31 + b[2]) * 33 + 17) % 1009

\* hashDecision: FNV-1a over org SP number SP date
hashDecision(decision) ==
    LET n == CASE decision = NoDecision -> 1
               [] decision = D1         -> 2
               [] decision = D2         -> 3
    IN  (n * 37 + 5) % 1013

(***************************************************************************)
(* UnmarshalContent / NewContent: decode one <content> byte string.         *)
(***************************************************************************)
\* one resource of a list: its value and its ts
Res(v, ts) == [v |-> v, ts |-> ts]

\* the elements with this tag, in document order, as (value, ts)
RECURSIVE Collect(_, _, _)
Collect(elems, tag, i) ==
    IF i > Len(elems) THEN << >>
    ELSE IF elems[i].tag = tag
         THEN << Res(elems[i].text, elems[i].ts) >> \o Collect(elems, tag, i + 1)
         ELSE Collect(elems, tag, i + 1)

\* IP4{IP4: IPv4StrToInt(ip4.IP), ...} and IP6{IP6: net.ParseIP(ip6.IP6), ...}
MapIP4(list) == [i \in 1..Len(list) |-> Res(IPv4StrToInt(list[i].v), list[i].ts)]
MapIP6(list) == [i \in 1..Len(list) |-> Res(ParseIP(list[i].v), list[i].ts)]

DecodeError == [err |-> TRUE]

UnmarshalContent(contBuf) ==
    LET x == ShapeOf(contBuf)
    IN  IF ~x.wellFormed THEN DecodeError
        ELSE [err        |-> FALSE,
              ID         |-> contBuf[2],
              BlockType  |-> x.blockType,
              Decision   |-> x.decision,
              URL        |-> Collect(x.elems, "url", 1),
              Domain     |-> Collect(x.elems, "domain", 1),
              IP4        |-> MapIP4(Collect(x.elems, "ip", 1)),
              IP6        |-> MapIP6(Collect(x.elems, "ipv6", 1)),
              Subnet4    |-> Collect(x.elems, "ipSubnet", 1),
              Subnet6    |-> Collect(x.elems, "ipv6Subnet", 1)]

\* NewContent that does not look at the error of UnmarshalContent: a record
\* that fails to decode comes back as a record without resources
NewContent_IgnoresError(recordHash, buf) ==
    LET content == UnmarshalContent(buf)
    IN  IF content.err
        THEN [err |-> FALSE, ID |-> buf[2], BlockType |-> "", Decision |-> NoDecision,
              URL |-> << >>, Domain |-> << >>, IP4 |-> << >>, IP6 |-> << >>,
              Subnet4 |-> << >>, Subnet6 |-> << >>,
              RecordHash |-> recordHash, HTTPSBlock |-> 0]
        ELSE [content EXCEPT !.err = FALSE] @@ [RecordHash |-> recordHash, HTTPSBlock |-> 0]

NewContent(recordHash, buf) ==
    LET content == UnmarshalContent(buf)
    IN  IF content.err THEN DecodeError
        ELSE [content EXCEPT !.err = FALSE] @@ [RecordHash |-> recordHash, HTTPSBlock |-> 0]

\* record.Marshal(): the JSON of the decoded record
Marshal(record) == <<"json", record.ID, record.BlockType, record.Decision, record.URL,
                     record.Domain, record.IP4, record.IP6, record.Subnet4, record.Subnet6>>

(***************************************************************************)
(* Index sets and inverted indexes.  An index is a map from a key to a      *)
(* set of ids; a key that is not in the map is not in its DOMAIN.           *)
(***************************************************************************)
EmptyIdx == [k \in {} |-> {}]

\* ArrayIntSet.Add / ArrayIntSet.Del
Add(v, id) == v \cup {id}
Del(v, id) == v \ {id}

\* DecisionSet.Insert
Insert(a, decision, id) ==
    LET v == IF decision \in DOMAIN a THEN a[decision] ELSE {}
    IN  [k \in DOMAIN a \cup {decision} |-> IF k = decision THEN Add(v, id) ELSE a[k]]

\* DecisionSet.Remove without its delete: the emptied set is stored back
Remove_KeepsEmptyKey(a, decision, id) ==
    IF decision \in DOMAIN a
    THEN [a EXCEPT ![decision] = Del(a[decision], id)]
    ELSE a

\* DecisionSet.Remove that deletes the key as soon as the id was under it
Remove_DropsKey(a, decision, id) ==
    IF decision \in DOMAIN a /\ id \in a[decision]
    THEN [k \in DOMAIN a \ {decision} |-> a[k]]
    ELSE a

\* DecisionSet.Remove
Remove(a, decision, id) ==
    IF decision \in DOMAIN a
    THEN LET v == Del(a[decision], id)
         IN  IF Cardinality(v) = 0
             THEN [k \in DOMAIN a \ {decision} |-> a[k]]
             ELSE [a EXCEPT ![decision] = v]
    ELSE a

\* insert / remove of the six resource indexes
IndexInsert(a, key, id) ==
    [k \in DOMAIN a \cup {key} |-> IF k = key
                                   THEN Add(IF key \in DOMAIN a THEN a[key] ELSE {}, id)
                                   ELSE a[k]]

IndexRemove(a, key, id) ==
    IF key \in DOMAIN a
    THEN LET v == Del(a[key], id)
         IN  IF v = {} THEN [k \in DOMAIN a \ {key} |-> a[k]] ELSE [a EXCEPT ![key] = v]
    ELSE a

InsertToIndexIP4(dump, ip4, id) == [dump EXCEPT !.ip4Idx = IndexInsert(@, ip4, id)]
RemoveFromIndexIP4(dump, ip4, id) == [dump EXCEPT !.ip4Idx = IndexRemove(@, ip4, id)]
InsertToIndexIP6(dump, ip6, id) == [dump EXCEPT !.ip6Idx = IndexInsert(@, ip6, id)]
RemoveFromIndexIP6(dump, ip6, id) == [dump EXCEPT !.ip6Idx = IndexRemove(@, ip6, id)]
InsertToIndexSubnet4(dump, s, id) == [dump EXCEPT !.subnet4Idx = IndexInsert(@, s, id)]
RemoveFromSubnet4(dump, s, id) == [dump EXCEPT !.subnet4Idx = IndexRemove(@, s, id)]
InsertToIndexSubnet6(dump, s, id) == [dump EXCEPT !.subnet6Idx = IndexInsert(@, s, id)]
RemoveFromIndexSubnet6(dump, s, id) == [dump EXCEPT !.subnet6Idx = IndexRemove(@, s, id)]
InsertToIndexDomain(dump, d, id) == [dump EXCEPT !.domainIdx = IndexInsert(@, d, id)]
RemoveFromIndexDomain(dump, d, id) == [dump EXCEPT !.domainIdx = IndexRemove(@, d, id)]
InsertToIndexURL(dump, u, id) == [dump EXCEPT !.urlIdx = IndexInsert(@, u, id)]
RemoveFromIndexURL(dump, u, id) == [dump EXCEPT !.urlIdx = IndexRemove(@, u, id)]
InsertToIndexDecision(dump, d, id) == [dump EXCEPT !.decisionIdx = Insert(@, d, id)]
RemoveFromIndexDecision(dump, d, id) == [dump EXCEPT !.decisionIdx = Remove(@, d, id)]

(***************************************************************************)
(* Resource lists of a PackedContent.                                       *)
(***************************************************************************)
\* InsertIP4 / InsertIP6 / InsertSubnet4 / InsertSubnet6 / InsertDomain /
\* InsertURL: append unless the same (value, ts) is already there
InsertIP4(list, x) ==
    IF \E i \in 1..Len(list) : list[i] = x THEN list ELSE Append(list, x)

\* RemoveIP4 / RemoveIP6 / ... : pack.X = append(pack.X[:i], pack.X[i+1:]...)
\* for the first i with pack.X[i] = x.  The slice is its backing array arr
\* and its length len: the append moves arr[i+1 .. len] one place down inside
\* the backing array and leaves the cell arr[len] as it was.
RemoveIP4(slice, x) ==
    LET hits == { i \in 1..slice.len : slice.arr[i] = x }
    IN  IF hits = {} THEN slice
        ELSE LET i == CHOOSE h \in hits : \A g \in hits : h <= g
             IN  [arr |-> [k \in 1..Len(slice.arr) |->
                              IF k >= i /\ k < slice.len THEN slice.arr[k + 1]
                              ELSE slice.arr[k]],
                  len |-> slice.len - 1]

\* for _, x := range pack.X { if _, ok := existed[x.v]; !ok { pack.RemoveX(x);
\* dump.RemoveFromIndexX(key(x.v), pack.ID) } }: the range reads cell k of the
\* backing array as it is when the loop gets to it, up to the length the
\* slice had when the loop began.  removed: the values whose index removal
\* is called, in order.
RECURSIVE RangeRemove(_, _, _, _)
RangeRemove(slice, existed, k, removed) ==
    IF k > Len(slice.arr) THEN [list |-> SubSeq(slice.arr, 1, slice.len), removed |-> removed]
    ELSE LET x == slice.arr[k]
         IN  IF x.v \in existed
             THEN RangeRemove(slice, existed, k + 1, removed)
             ELSE RangeRemove(RemoveIP4(slice, x), existed, k + 1, Append(removed, x.v))

\* the insert loop of an update: pack.InsertX(x) for every incoming x
RECURSIVE InsertEach(_, _, _)
InsertEach(list, incoming, k) ==
    IF k > Len(incoming) THEN list
    ELSE InsertEach(InsertIP4(list, incoming[k]), incoming, k + 1)

Values(list) == { list[i].v : i \in 1..Len(list) }

\* both loops of EctractAndApplyUpdateX on the list of the entry
UpdateList(old, incoming) ==
    LET merged == InsertEach(old, incoming, 1)
    IN  RangeRemove([arr |-> merged, len |-> Len(merged)], Values(incoming), 1, << >>)

\* the call dump.op(key, id) of an index method
Call(op, dump, key, id) ==
    CASE op = "InsertToIndexIP4"       -> InsertToIndexIP4(dump, key, id)
      [] op = "RemoveFromIndexIP4"     -> RemoveFromIndexIP4(dump, key, id)
      [] op = "InsertToIndexIP6"       -> InsertToIndexIP6(dump, key, id)
      [] op = "RemoveFromIndexIP6"     -> RemoveFromIndexIP6(dump, key, id)
      [] op = "InsertToIndexSubnet4"   -> InsertToIndexSubnet4(dump, key, id)
      [] op = "RemoveFromSubnet4"      -> RemoveFromSubnet4(dump, key, id)
      [] op = "InsertToIndexSubnet6"   -> InsertToIndexSubnet6(dump, key, id)
      [] op = "RemoveFromIndexSubnet6" -> RemoveFromIndexSubnet6(dump, key, id)
      [] op = "InsertToIndexDomain"    -> InsertToIndexDomain(dump, key, id)
      [] op = "RemoveFromIndexDomain"  -> RemoveFromIndexDomain(dump, key, id)
      [] op = "InsertToIndexURL"       -> InsertToIndexURL(dump, key, id)
      [] op = "RemoveFromIndexURL"     -> RemoveFromIndexURL(dump, key, id)

\* for _, x := range keys { dump.op(x, id) }
RECURSIVE ForEach(_, _, _, _, _)
ForEach(op, dump, keys, id, k) ==
    IF k > Len(keys) THEN dump
    ELSE ForEach(op, Call(op, dump, keys[k], id), keys, id, k + 1)

Vs(list) == [i \in 1..Len(list) |-> list[i].v]
NormDomains(vals) == [i \in 1..Len(vals) |-> NormalizeDomain(vals[i])]
NormURLs(vals) == [i \in 1..Len(vals) |-> NormalizeURL(vals[i])]

(***************************************************************************)
(* Add path: NewPackedContent and the ExtractAndApplyX it calls.  Every     *)
(* operator takes the dump and gives the dump after the call; the entry     *)
(* "pack" is dump.ContentIdx[id].                                           *)
(***************************************************************************)
newPackedContent(id, hash, utime, payload) ==
    [ID |-> id, RecordHash |-> hash, RegistryUpdateTime |-> utime, Payload |-> payload,
     BlockType |-> "", Decision |-> 0,
     IP4 |-> << >>, IP6 |-> << >>, Subnet4 |-> << >>, Subnet6 |-> << >>,
     Domain |-> << >>, URL |-> << >>]

ExtractAndApplyDecision(dump, record, id) ==
    LET d == hashDecision(record.Decision)
    IN  InsertToIndexDecision([dump EXCEPT !.ContentIdx[id].Decision = d], d, id)

ExtractAndApplyIP4(dump, record, id) ==
    IF Len(record.IP4) > 0
    THEN ForEach("InsertToIndexIP4", [dump EXCEPT !.ContentIdx[id].IP4 = record.IP4],
                 Vs(record.IP4), id, 1)
    ELSE dump

ExtractAndApplyIP6(dump, record, id) ==
    IF Len(record.IP6) > 0
    THEN ForEach("InsertToIndexIP6", [dump EXCEPT !.ContentIdx[id].IP6 = record.IP6],
                 Vs(record.IP6), id, 1)
    ELSE dump

ExtractAndApplySubnet4(dump, record, id) ==
    IF Len(record.Subnet4) > 0
    THEN ForEach("InsertToIndexSubnet4", [dump EXCEPT !.ContentIdx[id].Subnet4 = record.Subnet4],
                 Vs(record.Subnet4), id, 1)
    ELSE dump

ExtractAndApplySubnet6(dump, record, id) ==
    IF Len(record.Subnet6) > 0
    THEN ForEach("InsertToIndexSubnet4", [dump EXCEPT !.ContentIdx[id].Subnet6 = record.Subnet6],
                 Vs(record.Subnet6), id, 1)
    ELSE dump

ExtractAndApplyDomain(dump, record, id) ==
    IF Len(record.Domain) > 0
    THEN ForEach("InsertToIndexDomain", [dump EXCEPT !.ContentIdx[id].Domain = record.Domain],
                 NormDomains(Vs(record.Domain)), id, 1)
    ELSE dump

\* the number of URLs of the list that normalize to an https:// prefix
HTTPSCount(list) ==
    Cardinality({ i \in 1..Len(list) : HasPrefixHTTPS(NormalizeURL(list[i].v)) })

constructBlockType(record) ==
    CASE record.BlockType = "ip"          -> "IP"
      [] record.BlockType = "domain"      -> "Domain"
      [] record.BlockType = "domain-mask" -> "Mask"
      [] OTHER -> IF record.HTTPSBlock = 0 THEN "URL" ELSE "HTTPS"

ExtractAndApplyURL(dump, record, id) ==
    LET d1 == IF Len(record.URL) > 0
              THEN ForEach("InsertToIndexURL", [dump EXCEPT !.ContentIdx[id].URL = record.URL],
                           NormURLs(Vs(record.URL)), id, 1)
              ELSE dump
        rec1 == [record EXCEPT !.HTTPSBlock = @ + HTTPSCount(record.URL)]
    IN  [d1 EXCEPT !.ContentIdx[id].BlockType = constructBlockType(rec1)]

NewPackedContent(dump, record, updateTime) ==
    LET id == record.ID
        fresh == newPackedContent(id, record.RecordHash, updateTime, Marshal(record))
        d0 == [dump EXCEPT !.ContentIdx =
                  [k \in DOMAIN @ \cup {id} |-> IF k = id THEN fresh ELSE @[k]]]
        d1 == ExtractAndApplyIP4(d0, record, id)
        d2 == ExtractAndApplyIP6(d1, record, id)
        d3 == ExtractAndApplySubnet4(d2, record, id)
        d4 == ExtractAndApplySubnet6(d3, record, id)
        d5 == ExtractAndApplyDomain(d4, record, id)
        d6 == ExtractAndApplyURL(d5, record, id)
    IN  ExtractAndApplyDecision(d6, record, id)

(***************************************************************************)
(* Update path: MergePackedContent and the EctractAndApplyUpdateX it calls. *)
(***************************************************************************)
\* refreshPackedContent that leaves the stored record fingerprint as it was
refreshPackedContent_KeepsHash(pack, hash, utime, payload) ==
    [pack EXCEPT !.RegistryUpdateTime = utime, !.Payload = payload]

refreshPackedContent(pack, hash, utime, payload) ==
    [pack EXCEPT !.RecordHash = hash, !.RegistryUpdateTime = utime, !.Payload = payload]

\* EctractAndApplyUpdateDecision without the removal under the old hash
EctractAndApplyUpdateDecision_NoRemove(dump, record, id) ==
    LET d == hashDecision(record.Decision)
    IN  InsertToIndexDecision([dump EXCEPT !.ContentIdx[id].Decision = d], d, id)

EctractAndApplyUpdateDecision(dump, record, id) ==
    LET d0 == RemoveFromIndexDecision(dump, dump.ContentIdx[id].Decision, id)
        d == hashDecision(record.Decision)
    IN  InsertToIndexDecision([d0 EXCEPT !.ContentIdx[id].Decision = d], d, id)

EctractAndApplyUpdateIP4(dump, record, id) ==
    LET u == UpdateList(dump.ContentIdx[id].IP4, record.IP4)
        d1 == ForEach("InsertToIndexIP4", dump, Vs(record.IP4), id, 1)
        d2 == [d1 EXCEPT !.ContentIdx[id].IP4 = u.list]
    IN  ForEach("RemoveFromIndexIP4", d2, u.removed, id, 1)

EctractAndApplyUpdateIP6(dump, record, id) ==
    LET u == UpdateList(dump.ContentIdx[id].IP6, record.IP6)
        d1 == ForEach("InsertToIndexIP6", dump, Vs(record.IP6), id, 1)
        d2 == [d1 EXCEPT !.ContentIdx[id].IP6 = u.list]
    IN  ForEach("RemoveFromIndexIP6", d2, u.removed, id, 1)

EctractAndApplyUpdateSubnet4(dump, record, id) ==
    LET u == UpdateList(dump.ContentIdx[id].Subnet4, record.Subnet4)
        d1 == ForEach("InsertToIndexSubnet4", dump, Vs(record.Subnet4), id, 1)
        d2 == [d1 EXCEPT !.ContentIdx[id].Subnet4 = u.list]
    IN  ForEach("RemoveFromSubnet4", d2, u.removed, id, 1)

EctractAndApplyUpdateSubnet6(dump, record, id) ==
    LET u == UpdateList(dump.ContentIdx[id].Subnet6, record.Subnet6)
        d1 == ForEach("InsertToIndexSubnet6", dump, Vs(record.Subnet6), id, 1)
        d2 == [d1 EXCEPT !.ContentIdx[id].Subnet6 = u.list]
    IN  ForEach("RemoveFromSubnet4", d2, u.removed, id, 1)

EctractAndApplyUpdateDomain(dump, record, id) ==
    LET u == UpdateList(dump.ContentIdx[id].Domain, record.Domain)
        d1 == ForEach("InsertToIndexDomain", dump, NormDomains(Vs(record.Domain)), id, 1)
        d2 == [d1 EXCEPT !.ContentIdx[id].Domain = u.list]
    IN  ForEach("RemoveFromIndexDomain", d2, NormDomains(u.removed), id, 1)

EctractAndApplyUpdateURL(dump, record, id) ==
    LET u == UpdateList(dump.ContentIdx[id].URL, record.URL)
        d1 == ForEach("InsertToIndexURL", dump, NormURLs(Vs(record.URL)), id, 1)
        rec1 == [record EXCEPT !.HTTPSBlock = HTTPSCount(record.URL)]
        d2 == [d1 EXCEPT !.ContentIdx[id].URL = u.list,
                         !.ContentIdx[id].BlockType = constructBlockType(rec1)]
    IN  ForEach("RemoveFromIndexURL", d2, NormURLs(u.removed), id, 1)

MergePackedContent(dump, record, id, updateTime) ==
    LET d0 == [dump EXCEPT !.ContentIdx[id] =
                  refreshPackedContent(@, record.RecordHash, updateTime, Marshal(record))]
        d1 == EctractAndApplyUpdateIP4(d0, record, id)
        d2 == EctractAndApplyUpdateIP6(d1, record, id)
        d3 == EctractAndApplyUpdateSubnet4(d2, record, id)
        d4 == EctractAndApplyUpdateSubnet6(d3, record, id)
        d5 == EctractAndApplyUpdateDomain(d4, record, id)
        d6 == EctractAndApplyUpdateURL(d5, record, id)
    IN  EctractAndApplyUpdateDecision(d6, record, id)

\* the unchanged case
SetContentUpdateTime(dump, id, updateTime) ==
    [dump EXCEPT !.ContentIdx[id].RegistryUpdateTime = dump.utime]

(***************************************************************************)
(* Cleanup: the sweep that ends a refresh.                                  *)
(***************************************************************************)
\* the body of purge's loop for one entry that the refresh did not see
purgeOne(dump, id) ==
    LET cont == dump.ContentIdx[id]
        d1 == ForEach("RemoveFromIndexIP4", dump, Vs(cont.IP4), cont.ID, 1)
        d2 == ForEach("RemoveFromIndexIP6", d1, Vs(cont.IP6), cont.ID, 1)
        d3 == ForEach("RemoveFromIndexSubnet6", d2, Vs(cont.Subnet6), cont.ID, 1)
        d4 == ForEach("RemoveFromSubnet4", d3, Vs(cont.Subnet4), cont.ID, 1)
        d5 == ForEach("RemoveFromIndexURL", d4, NormURLs(Vs(cont.URL)), cont.ID, 1)
        d6 == ForEach("RemoveFromIndexDomain", d5, NormDomains(Vs(cont.Domain)),
                      cont.ID, 1)
        d7 == RemoveFromIndexDecision(d6, cont.Decision, cont.ID)
    IN  [d7 EXCEPT !.ContentIdx = [k \in DOMAIN @ \ {id} |-> @[k]]]

\* purge with its test turned round: the entries the refresh did see
Unseen_Inverted(dump, existed) == { id \in DOMAIN dump.ContentIdx : id \in existed }

\* the entries purge deletes: the stored ids that are not in the journal
Unseen(dump, existed) == { id \in DOMAIN dump.ContentIdx : id \notin existed }

RECURSIVE purgeEach(_, _)
purgeEach(dump, ids) ==
    IF ids = {} THEN dump
    ELSE LET id == CHOOSE i \in ids : TRUE
         IN  purgeEach(purgeOne(dump, id), ids \ {id})

purge(dump, existed) == purgeEach(dump, Unseen(dump, existed))

\* the largest id set of the six resource indexes
MaxLen(a) == IF DOMAIN a = {} THEN 0
             ELSE LET k == CHOOSE x \in DOMAIN a :
                               \A y \in DOMAIN a : Cardinality(a[y]) <= Cardinality(a[x])
                  IN  Cardinality(a[k])

Max2(x, y) == IF x < y THEN y ELSE x

calcMaxEntityLen(dump) ==
    Max2(MaxLen(dump.ip4Idx), Max2(MaxLen(dump.ip6Idx), Max2(MaxLen(dump.subnet4Idx),
    Max2(MaxLen(dump.subnet6Idx), Max2(MaxLen(dump.urlIdx), MaxLen(dump.domainIdx))))))

(***************************************************************************)
(* State.                                                                   *)
(***************************************************************************)
VARIABLES
    CurrentDump,   \* the process-wide store: ContentIdx, the indexes and utime
    Stats,         \* the published statistics of the last completed refresh
    pc,            \* where Parse is: "idle", "register" (before the <register>
                   \* token), "content" (in the token loop, no lock held);
                   \* "locked", "switched" (a record, between Lock and Unlock);
                   \* "cleanup", "purged", "swept", "unlocked" (in and after
                   \* Cleanup)
    reg,           \* Parse's local reg
    ContJournal,   \* Parse's local journal of the ids seen
    stats,         \* Parse's local statistics
    scen,          \* the scenario the dumps of this run are drawn from
    mode,          \* "free", or "first" / "again": this dump is fed twice
    tape,          \* the bytes of the dump that is fed twice
    last,          \* the last operation: what it was, on which id and bytes,
                   \* and the decision hash the entry had before it
    failed,        \* the ids of which this refresh failed to decode a record
    hist,          \* what this refresh did to the entry store: entries when
                   \* it began, entries created, merged and deleted, records read
    mu,            \* the sync.RWMutex of CurrentDump
    readers,       \* where each reader is: "out", "waiting" (in RLock) or
                   \* "reading" (between RLock and RUnlock)
    current,       \* the file dir/current: id and CRC of the dump parsed last
    drv,           \* DumpRefresh: where it is, its lastDump, what its calls
                   \* gave and the path it took
    poll           \* DumpPoll: where it is ("call": in DumpRefresh, "select",
                   \* "send": in done <- true), whether it has stopped the
                   \* server and whether it has sent on done

lockVars == <<mu, readers>>
driverVars == <<current, drv, poll>>

vars == <<CurrentDump, Stats, pc, reg, ContJournal, stats, scen, mode, tape, last, failed,
          hist, mu, readers, current, drv, poll>>

\* ParseStatistics: the counters of a refresh (MaxContentSize, the largest
\* <content> in bytes, is not kept: the byte strings here have no length)
ZeroStats == [Count |-> 0, AddCount |-> 0, UpdateCount |-> 0, RemoveCount |-> 0,
              MaxIDSetLen |-> 0]

NoTape == [updateTime |-> NoTime, bufs |-> << >>]
NoLast == [op |-> "none", id |-> 0, buf |-> << >>, old |-> 0]
NoHist == [before |-> 0, created |-> 0, merged |-> 0, deleted |-> 0, read |-> 0]

\* the readers of the store
Readers == {"r1", "r2"}

\* the metadata of a dump: GetLastDumpID's result, the content of dir/current
DumpIDs == {"", "d1", "d2"}
DumpCRCs == {"c1", "c2"}
NoDump == [ID |-> "", CRC |-> "", UpdateTime |-> NoTime]
NoCurrent == [ID |-> "", CRC |-> ""]
NoDrv == [pc |-> "idle", lastDump |-> NoDump, meta |-> "none", io |-> "none", ran |-> "none",
          prev |-> "other"]

\* DumpPoll as it is started: about to make its first call of DumpRefresh
NoPoll == [pc |-> "call", stopped |-> FALSE, sent |-> FALSE]

Init ==
    /\ CurrentDump = [ContentIdx |-> EmptyIdx, ip4Idx |-> EmptyIdx, ip6Idx |-> EmptyIdx,
                      subnet4Idx |-> EmptyIdx, subnet6Idx |-> EmptyIdx,
                      domainIdx |-> EmptyIdx, urlIdx |-> EmptyIdx,
                      decisionIdx |-> EmptyIdx, utime |-> NoTime]
    /\ Stats = ZeroStats
    /\ pc = "idle"
    /\ reg = [UpdateTime |-> NoTime]
    /\ ContJournal = {}
    /\ stats = ZeroStats
    /\ scen \in Scenarios
    /\ mode = "free"
    /\ tape = NoTape
    /\ last = NoLast
    /\ failed = {}
    /\ hist = NoHist
    /\ mu = [w |-> FALSE]
    /\ readers = [r \in Readers |-> "out"]
    /\ current = NoCurrent
    /\ drv = NoDrv
    /\ poll = NoPoll

(***************************************************************************)
(* Parse.                                                                   *)
(***************************************************************************)
\* Parse is called: its locals are fresh
Begin ==
    /\ pc = "idle"
    /\ pc' = "register"
    /\ reg' = [UpdateTime |-> NoTime]
    /\ ContJournal' = {}
    /\ stats' = ZeroStats
    /\ last' = NoLast
    /\ failed' = {}
    /\ hist' = [NoHist EXCEPT !.before = Cardinality(DOMAIN CurrentDump.ContentIdx)]
    /\ UNCHANGED <<CurrentDump, Stats, scen, lockVars, current>>

\* Parse is called on any dump
ParseBegin == Begin /\ mode' = "free" /\ tape' = NoTape /\ UNCHANGED <<drv, poll>>

\* Parse is called on a dump that will be fed again
ParseBeginFirst == Begin /\ mode' = "first" /\ tape' = NoTape /\ UNCHANGED <<drv, poll>>

\* Parse is called on the bytes of the dump it was called on last
ParseBeginAgain == Begin /\ mode = "first" /\ mode' = "again" /\ tape' = tape /\ UNCHANGED <<drv, poll>>

\* the <register> start element: parseRegister
ParseRegister(t) ==
    /\ pc = "register"
    /\ mode = "again" => t = tape.updateTime
    /\ pc' = "content"
    /\ reg' = [reg EXCEPT !.UpdateTime = t]
    /\ tape' = IF mode = "first" THEN [tape EXCEPT !.updateTime = t] ELSE tape
    /\ UNCHANGED <<CurrentDump, Stats, ContJournal, stats, scen, mode, last, failed, hist,
                   lockVars, driverVars>>

\* the outcome of the switch on one <content>
Outcome(dump, id, newRecordHash, contBuf) ==
    IF id \notin DOMAIN dump.ContentIdx
    THEN IF NewContent(newRecordHash, contBuf).err THEN "decodeError" ELSE "added"
    ELSE IF dump.ContentIdx[id].RecordHash # newRecordHash
         THEN IF NewContent(newRecordHash, contBuf).err THEN "decodeError" ELSE "updated"
         ELSE "unchanged"

\* the counting of the switch, with stats.AddCount++ done for a new id even
\* when its record did not decode
CountOutcome_CountsSkipped(st, o, isNew) ==
    [st EXCEPT !.AddCount = IF o = "added" \/ (o = "decodeError" /\ isNew) THEN @ + 1 ELSE @,
               !.UpdateCount = IF o = "updated" THEN @ + 1 ELSE @]

\* stats.AddCount++ / stats.UpdateCount++ of the switch
CountOutcome(st, o, isNew) ==
    [st EXCEPT !.AddCount = IF o = "added" THEN @ + 1 ELSE @,
               !.UpdateCount = IF o = "updated" THEN @ + 1 ELSE @]

\* from prevCont, exists := CurrentDump.ContentIdx[id] to the end of the
\* switch: the journal, the store and the statistics after it
Switch(dump, journal, st, contBuf, updateTime) ==
    LET id == getContentId(contBuf)
        newRecordHash == Sum64(contBuf)
        o == Outcome(dump, id, newRecordHash, contBuf)
        newCont == NewContent(newRecordHash, contBuf)
    IN  [op      |-> o,
         id      |-> id,
         journal |-> journal \cup {id},
         dump    |-> CASE o = "added"     -> NewPackedContent(dump, newCont, updateTime)
                       [] o = "updated"   -> MergePackedContent(dump, newCont, id, updateTime)
                       [] o = "unchanged" -> SetContentUpdateTime(dump, id, updateTime)
                       [] OTHER           -> dump,
         stats   |-> CountOutcome(st, o, id \notin DOMAIN dump.ContentIdx)]

\* what a step did to the entry store, added to the record h of the refresh
Observe(h, old, new) ==
    [h EXCEPT
        !.created = @ + Cardinality(DOMAIN new.ContentIdx \ DOMAIN old.ContentIdx),
        !.merged = @ + Cardinality({ id \in DOMAIN old.ContentIdx \cap DOMAIN new.ContentIdx :
                                        new.ContentIdx[id].RecordHash
                                            # old.ContentIdx[id].RecordHash }),
        !.deleted = @ + Cardinality(DOMAIN old.ContentIdx \ DOMAIN new.ContentIdx)]

\* the decision hash of the entry of id, 0 when there is none
DecisionOf(dump, id) ==
    IF id \in DOMAIN dump.ContentIdx THEN dump.ContentIdx[id].Decision ELSE 0

\* a <content> start element: from getContentId to stats.Count++.  The store
\* is read and written between CurrentDump.Lock() and CurrentDump.Unlock(),
\* so the step is one transition.
ParseContent(contBuf) ==
    /\ pc = "content"
    /\ stats.Count < MaxRecords
    /\ mode = "again" => /\ stats.Count < Len(tape.bufs)
                         /\ contBuf = tape.bufs[stats.Count + 1]
    /\ \E s \in {Switch(CurrentDump, ContJournal, stats, contBuf, reg.UpdateTime)} :
           /\ ContJournal' = s.journal
           /\ CurrentDump' = s.dump
           /\ stats' = [s.stats EXCEPT !.Count = @ + 1]
           /\ last' = [op |-> s.op, id |-> s.id, buf |-> contBuf,
                       old |-> DecisionOf(CurrentDump, s.id)]
           /\ failed' = IF s.op = "decodeError" THEN failed \cup {s.id} ELSE failed
           /\ hist' = [Observe(hist, CurrentDump, s.dump) EXCEPT !.read = @ + 1]
    /\ tape' = IF mode = "first" THEN [tape EXCEPT !.bufs = Append(@, contBuf)] ELSE tape
    /\ UNCHANGED <<Stats, pc, reg, scen, mode, lockVars, driverVars>>

\* Cleanup: purge and the global update time, under the lock
Cleanup(dump, existed, utime) == [purge(dump, existed) EXCEPT !.utime = utime]

\* end of input: Cleanup, the statistics are published, Parse returns nil.
\* last.old: the largest id set of the indexes before the sweep.
ParseEOF ==
    /\ pc \in {"register", "content"}
    /\ mode = "again" => /\ stats.Count = Len(tape.bufs)
                         /\ pc = "register" => tape.updateTime = NoTime
    /\ CurrentDump' = Cleanup(CurrentDump, ContJournal, reg.UpdateTime)
    /\ stats' = [stats EXCEPT
                    !.RemoveCount = @ + Cardinality(Unseen(CurrentDump, ContJournal)),
                    !.MaxIDSetLen = calcMaxEntityLen(CurrentDump')]
    /\ Stats' = stats'
    /\ pc' = "idle"
    /\ last' = [NoLast EXCEPT !.op = "sweep", !.old = calcMaxEntityLen(CurrentDump)]
    /\ hist' = Observe(hist, CurrentDump, CurrentDump')
    /\ UNCHANGED <<reg, ContJournal, scen, mode, tape, failed, lockVars, driverVars>>

\* what a stream error leaves of Parse's locals
Abandon ==
    /\ pc' = "idle"
    /\ mode' = "free"
    /\ tape' = NoTape
    /\ last' = [NoLast EXCEPT !.op = "error"]
    /\ reg' = [UpdateTime |-> NoTime]
    /\ ContJournal' = {}
    /\ stats' = ZeroStats
    /\ failed' = {}
    /\ hist' = NoHist
    /\ UNCHANGED <<scen, lockVars, driverVars>>

\* a stream error that leaves the token loop as the end of input does: the
\* sweep runs and the statistics are published
ParseError_RunsCleanup ==
    /\ pc \in {"register", "content"}
    /\ Abandon
    /\ CurrentDump' = Cleanup(CurrentDump, ContJournal, reg.UpdateTime)
    /\ Stats' = [stats EXCEPT !.RemoveCount = Cardinality(Unseen(CurrentDump, ContJournal))]

\* decoder.Token() fails with an error other than io.EOF: Parse returns it
ParseError ==
    /\ pc \in {"register", "content"}
    /\ Abandon
    /\ UNCHANGED <<CurrentDump, Stats>>

Next ==
    \/ ParseBegin
    \/ \E t \in UpdateTimes(scen) : ParseRegister(t)
    \/ \E contBuf \in ContBufs(scen) : ParseContent(contBuf)
    \/ ParseEOF
    \/ ParseError

Spec == Init /\ [][Next]_vars

\* the same, with dumps that are fed twice
NextTwice ==
    \/ Next
    \/ ParseBeginFirst
    \/ ParseBeginAgain

\* the scenarios whose dumps are fed twice
TwiceScenarios == {"ip4", "domain", "subnet", "url", "times", "shared"}

InitTwice == Init /\ scen \in TwiceScenarios

SpecTwice == InitTwice /\ [][NextTwice]_vars

(***************************************************************************)
(* Parse step by step, with the lock of the store: every Lock, every write  *)
(* and every Unlock is a step of its own, and readers take the shared lock  *)
(* between them.                                                            *)
(***************************************************************************)
\* Lock returns when no writer and no reader holds the lock
CanLock(m, rs) == ~m.w /\ \A r \in Readers : rs[r] # "reading"

\* Unlock lets in the readers that are blocked in RLock
Admit(rs) == [r \in Readers |-> IF rs[r] = "waiting" THEN "reading" ELSE rs[r]]

\* case "content": the bytes of the record are read, CurrentDump.Lock() returns
ContentLock(contBuf) ==
    /\ pc = "content"
    /\ stats.Count < MaxRecords
    /\ CanLock(mu, readers)
    /\ mu' = [mu EXCEPT !.w = TRUE]
    /\ pc' = "locked"
    /\ last' = [op |-> "read", id |-> getContentId(contBuf), buf |-> contBuf,
                old |-> DecisionOf(CurrentDump, getContentId(contBuf))]
    /\ UNCHANGED <<CurrentDump, Stats, reg, ContJournal, stats, scen, mode, tape, failed,
                   hist, readers, driverVars>>

\* the journal is marked and the switch runs
ContentSwitch ==
    /\ pc = "locked"
    /\ \E s \in {Switch(CurrentDump, ContJournal, stats, last.buf, reg.UpdateTime)} :
           /\ ContJournal' = s.journal
           /\ CurrentDump' = s.dump
           /\ stats' = s.stats
           /\ last' = [last EXCEPT !.op = s.op]
           /\ failed' = IF s.op = "decodeError" THEN failed \cup {s.id} ELSE failed
           /\ hist' = [Observe(hist, CurrentDump, s.dump) EXCEPT !.read = @ + 1]
    /\ pc' = "switched"
    /\ UNCHANGED <<Stats, reg, scen, mode, tape, lockVars, driverVars>>

\* the end of case "content" with the Unlock left out after a decode error
ContentUnlock_SkipsOnError ==
    /\ pc = "switched"
    /\ mu' = IF last.op = "decodeError" THEN mu ELSE [mu EXCEPT !.w = FALSE]
    /\ readers' = IF last.op = "decodeError" THEN readers ELSE Admit(readers)
    /\ stats' = [stats EXCEPT !.Count = @ + 1]
    /\ pc' = "content"
    /\ UNCHANGED <<CurrentDump, Stats, reg, ContJournal, scen, mode, tape, last, failed, hist,
                   driverVars>>

\* CurrentDump.Unlock(); stats.Count++
ContentUnlock ==
    /\ pc = "switched"
    /\ mu' = [mu EXCEPT !.w = FALSE]
    /\ readers' = Admit(readers)
    /\ stats' = [stats EXCEPT !.Count = @ + 1]
    /\ pc' = "content"
    /\ UNCHANGED <<CurrentDump, Stats, reg, ContJournal, scen, mode, tape, last, failed, hist,
                   driverVars>>

\* Cleanup that goes on to purge without dump.Lock()
CleanupLock_NoLock ==
    /\ pc \in {"register", "content"}
    /\ pc' = "cleanup"
    /\ UNCHANGED <<CurrentDump, Stats, reg, ContJournal, stats, scen, mode, tape, last, failed,
                   hist, lockVars, driverVars>>

\* end of input: Cleanup is called, dump.Lock() returns
CleanupLock ==
    /\ pc \in {"register", "content"}
    /\ CanLock(mu, readers)
    /\ mu' = [mu EXCEPT !.w = TRUE]
    /\ pc' = "cleanup"
    /\ UNCHANGED <<CurrentDump, Stats, reg, ContJournal, stats, scen, mode, tape, last, failed,
                   hist, readers, driverVars>>

\* dump.purge(existed, stats)
CleanupPurge ==
    /\ pc = "cleanup"
    /\ CurrentDump' = purge(CurrentDump, ContJournal)
    /\ stats' = [stats EXCEPT !.RemoveCount = @ + Cardinality(Unseen(CurrentDump, ContJournal))]
    /\ hist' = Observe(hist, CurrentDump, CurrentDump')
    /\ last' = [NoLast EXCEPT !.op = "purge", !.old = calcMaxEntityLen(CurrentDump)]
    /\ pc' = "purged"
    /\ UNCHANGED <<Stats, reg, ContJournal, scen, mode, tape, failed, lockVars, driverVars>>

\* dump.calcMaxEntityLen(stats); dump.utime = utime
CleanupUtime ==
    /\ pc = "purged"
    /\ stats' = [stats EXCEPT !.MaxIDSetLen = calcMaxEntityLen(CurrentDump)]
    /\ CurrentDump' = [CurrentDump EXCEPT !.utime = reg.UpdateTime]
    /\ pc' = "swept"
    /\ UNCHANGED <<Stats, reg, ContJournal, scen, mode, tape, last, failed, hist, lockVars,
                   driverVars>>

\* the deferred dump.Unlock() as Cleanup returns
CleanupUnlock ==
    /\ pc = "swept"
    /\ mu' = [mu EXCEPT !.w = FALSE]
    /\ readers' = Admit(readers)
    /\ pc' = "unlocked"
    /\ UNCHANGED <<CurrentDump, Stats, reg, ContJournal, stats, scen, mode, tape, last, failed,
                   hist, driverVars>>

\* stats.Update(); Stats = stats; Parse returns nil
Publish ==
    /\ pc = "unlocked"
    /\ Stats' = stats
    /\ pc' = "idle"
    /\ last' = [last EXCEPT !.op = "sweep"]
    /\ UNCHANGED <<CurrentDump, reg, ContJournal, stats, scen, mode, tape, failed, hist,
                   lockVars, driverVars>>

\* a query takes the shared lock: it is let in, or it waits for the writer
RLock(r) ==
    /\ readers[r] = "out"
    /\ readers' = [readers EXCEPT ![r] = IF mu.w THEN "waiting" ELSE "reading"]
    /\ UNCHANGED <<CurrentDump, Stats, pc, reg, ContJournal, stats, scen, mode, tape, last,
                   failed, hist, mu, driverVars>>

\* the query is answered: the shared lock is released
RUnlock(r) ==
    /\ readers[r] = "reading"
    /\ readers' = [readers EXCEPT ![r] = "out"]
    /\ UNCHANGED <<CurrentDump, Stats, pc, reg, ContJournal, stats, scen, mode, tape, last,
                   failed, hist, mu, driverVars>>

\* the scenarios of the step-by-step runs
LockScenarios == {"lock"}

InitLock == Init /\ scen \in LockScenarios

NextLock ==
    \/ ParseBegin
    \/ \E t \in UpdateTimes(scen) : ParseRegister(t)
    \/ \E contBuf \in ContBufs(scen) : ContentLock(contBuf)
    \/ ContentSwitch
    \/ ContentUnlock
    \/ CleanupLock
    \/ CleanupPurge
    \/ CleanupUtime
    \/ CleanupUnlock
    \/ Publish
    \/ ParseError
    \/ \E r \in Readers : RLock(r)
    \/ \E r \in Readers : RUnlock(r)

SpecLock == InitLock /\ [][NextLock]_vars

\* the positions of Parse, and those in which it holds the lock
Positions == {"idle", "register", "content", "locked", "switched",
              "cleanup", "purged", "swept", "unlocked"}
Held == {"locked", "switched", "cleanup", "purged", "swept"}

\* Parse moves on from a position in which it holds the lock: between Lock
\* and Unlock it reads no input and waits for nothing
Holding == pc \in Held /\ pc' \in Positions \ {pc}

SpecLockFair == InitLock /\ [][NextLock]_vars /\ WF_pc(Holding)

(***************************************************************************)
(* The driver: DumpPoll calls DumpRefresh again and again, one call at a    *)
(* time.  drv keeps the inputs of the last call and what it ran; current is *)
(* the content of dir/current.                                              *)
(***************************************************************************)
\* GetLastDumpID and ReadCurrentDumpID: neither fails, or one of them does
Metas == {"ok", "getErr", "readErr"}

\* FetchDump, DumpUnzip, os.Open: not called, all succeed, or one of them fails
IOs == {"none", "ok", "fetchErr", "unzipErr", "openErr"}

\* what GetLastDumpID may return for the dumps of scenario sc, NoDump with
\* its error
LastDumps(sc) == [ID : DumpIDs, CRC : DumpCRCs, UpdateTime : UpdateTimes(sc)] \cup {NoDump}

\* Parse2(updateTime), the touch-only path: the registry update time of
\* every entry is advanced to updateTime
Parse2(dump, updateTime) ==
    [dump EXCEPT !.ContentIdx = [id \in DOMAIN @ |->
                                    [@[id] EXCEPT !.RegistryUpdateTime = updateTime]]]

\* the two states, with the touch-only path taken whenever the CRCs are equal
Branch_TouchOnEqualCRC(lastDump, cachedDump) ==
    IF lastDump.CRC # cachedDump.CRC THEN "parse" ELSE "touch"

\* "two states...": the if / else if / else on the CRCs and the ids
Branch(lastDump, cachedDump) ==
    IF lastDump.CRC # cachedDump.CRC
    THEN "parse"
    ELSE IF lastDump.ID # cachedDump.ID THEN "touch" ELSE "none"

\* what a call of DumpRefresh gets to: the early returns, then the branch
Route(meta, lastDump, cachedDump, io) ==
    IF meta = "getErr" THEN "none"
    ELSE IF lastDump.ID = "" THEN "none"
    ELSE IF meta = "readErr" THEN "none"
    ELSE IF Branch(lastDump, cachedDump) = "parse" /\ io # "ok" THEN "none"
    ELSE Branch(lastDump, cachedDump)

\* the results of the calls DumpRefresh makes: ReadCurrentDumpID is called
\* for a dump that has an id, FetchDump when the CRCs differ
Results(meta, lastDump, cachedDump, io) ==
    /\ meta = "getErr" <=> lastDump = NoDump
    /\ meta = "readErr" => lastDump.ID # ""
    /\ io # "none" <=> /\ meta = "ok"
                       /\ lastDump.ID # ""
                       /\ Branch(lastDump, cachedDump) = "parse"

\* how the call before this one ended, when it was a call for the same remote
\* dump and it failed to fetch, unzip, open or parse it ("failed") or touched
\* the store ("touch")
Before(lastDump) ==
    IF lastDump # drv.lastDump \/ drv.meta # "ok" THEN "other"
    ELSE IF drv.io \in {"fetchErr", "unzipErr", "openErr"} THEN "failed"
    ELSE IF drv.ran = "parse" /\ last.op = "error" THEN "failed"
    ELSE IF drv.ran = "touch" THEN "touch"
    ELSE "other"

\* DumpRefresh is called: no call is running
Called(meta, lastDump, io, ran) ==
    /\ drv.pc = "idle"
    /\ pc = "idle"
    /\ Results(meta, lastDump, current, io)
    /\ Route(meta, lastDump, current, io) = ran
    /\ drv' = [pc |-> IF ran = "parse" THEN "parsing" ELSE "idle",
               lastDump |-> lastDump, meta |-> meta, io |-> io, ran |-> ran,
               prev |-> Before(lastDump)]

\* DumpRefresh returns early, or finds no new dump
DumpRefreshReturn(meta, lastDump, io) ==
    /\ Called(meta, lastDump, io, "none")
    /\ UNCHANGED <<CurrentDump, Stats, pc, reg, ContJournal, stats, scen, mode, tape, last,
                   failed, hist, lockVars, current>>

\* the CRCs differ, the dump is fetched, unzipped and opened: Parse(dumpFile)
DumpRefreshParse(meta, lastDump, io) ==
    /\ Called(meta, lastDump, io, "parse")
    /\ Begin
    /\ mode' = "free"
    /\ tape' = NoTape

\* the CRCs are equal and the ids differ: Parse2(lastDump.UpdateTime)
DumpRefreshTouch(meta, lastDump, io) ==
    /\ Called(meta, lastDump, io, "touch")
    /\ CurrentDump' = Parse2(CurrentDump, lastDump.UpdateTime)
    /\ UNCHANGED <<Stats, pc, reg, ContJournal, stats, scen, mode, tape, last, failed, hist,
                   lockVars, current>>

\* Parse has returned and WriteCurrentDumpID is called whatever it returned
DumpRefreshParsed_WritesOnError(written) ==
    /\ drv.pc = "parsing"
    /\ pc = "idle"
    /\ drv' = [drv EXCEPT !.pc = "idle"]
    /\ current' = IF written THEN [ID |-> drv.lastDump.ID, CRC |-> drv.lastDump.CRC]
                  ELSE current
    /\ UNCHANGED <<CurrentDump, Stats, pc, reg, ContJournal, stats, scen, mode, tape, last,
                   failed, hist, lockVars>>

\* Parse has returned: on an error DumpRefresh returns, otherwise
\* WriteCurrentDumpID(dir+"/current", lastDump) saves the id and the CRC, or
\* fails
DumpRefreshParsed(written) ==
    /\ drv.pc = "parsing"
    /\ pc = "idle"
    /\ last.op = "error" => ~written
    /\ drv' = [drv EXCEPT !.pc = "idle"]
    /\ current' = IF written THEN [ID |-> drv.lastDump.ID, CRC |-> drv.lastDump.CRC]
                  ELSE current
    /\ UNCHANGED <<CurrentDump, Stats, pc, reg, ContJournal, stats, scen, mode, tape, last,
                   failed, hist, lockVars>>

\* the scenarios of the driver's runs
DriverScenarios == {"driver"}

InitDriver == Init /\ scen \in DriverScenarios

\* DumpRefresh is called again and again; DumpPoll's loop is left out
NextDriver ==
    \/ /\ \E meta \in Metas, lastDump \in LastDumps(scen), io \in IOs :
            DumpRefreshReturn(meta, lastDump, io)
       /\ UNCHANGED poll
    \/ /\ \E meta \in Metas, lastDump \in LastDumps(scen), io \in IOs :
            DumpRefreshParse(meta, lastDump, io)
       /\ UNCHANGED poll
    \/ /\ \E meta \in Metas, lastDump \in LastDumps(scen), io \in IOs :
            DumpRefreshTouch(meta, lastDump, io)
       /\ UNCHANGED poll
    \/ \E t \in UpdateTimes(scen) : ParseRegister(t)
    \/ \E contBuf \in ContBufs(scen) : ParseContent(contBuf)
    \/ ParseEOF
    \/ ParseError
    \/ /\ \E written \in BOOLEAN : DumpRefreshParsed(written)
       /\ UNCHANGED poll

SpecDriver == InitDriver /\ [][NextDriver]_vars

(***************************************************************************)
(* DumpPoll: the first call of DumpRefresh, then the loop on the timer and  *)
(* the signals.                                                             *)
(***************************************************************************)
\* DumpRefresh returns to DumpPoll, which goes (back) to its select
Resume == poll' = IF drv'.pc = "parsing" THEN poll ELSE [poll EXCEPT !.pc = "select"]

\* DumpRefresh(url, token, dir), before the loop or for a timer expiry
PollRefresh(meta, lastDump, io) ==
    /\ poll.pc = "call"
    /\ \/ DumpRefreshReturn(meta, lastDump, io)
       \/ DumpRefreshParse(meta, lastDump, io)
       \/ DumpRefreshTouch(meta, lastDump, io)
    /\ Resume

\* the rest of DumpRefresh when Parse has returned
PollRefreshed(written) ==
    /\ DumpRefreshParsed(written)
    /\ Resume

\* what is left unchanged by a step of DumpPoll's own
PollOnly ==
    UNCHANGED <<CurrentDump, Stats, pc, reg, ContJournal, stats, scen, mode, tape, last,
                failed, hist, lockVars, current, drv>>

\* case <-timer.C
PollTimer ==
    /\ poll.pc = "select"
    /\ poll' = [poll EXCEPT !.pc = "call"]
    /\ PollOnly

\* case <-sigs: s.Stop(), and done <- true is begun
PollSignal ==
    /\ poll.pc = "select"
    /\ poll' = [poll EXCEPT !.pc = "send", !.stopped = TRUE]
    /\ PollOnly

\* done <- true completes: the value is taken; the for loop goes on
PollDone ==
    /\ poll.pc = "send"
    /\ poll' = [poll EXCEPT !.pc = "select", !.sent = TRUE]
    /\ PollOnly

\* the scenarios of DumpPoll's runs
PollScenarios == {"lock"}

InitPoll == Init /\ scen \in PollScenarios

NextPoll ==
    \/ \E meta \in Metas, lastDump \in LastDumps(scen), io \in IOs :
            PollRefresh(meta, lastDump, io)
    \/ \E t \in UpdateTimes(scen) : ParseRegister(t)
    \/ \E contBuf \in ContBufs(scen) : ParseContent(contBuf)
    \/ ParseEOF
    \/ ParseError
    \/ \E written \in BOOLEAN : PollRefreshed(written)
    \/ PollTimer
    \/ PollSignal
    \/ PollDone

SpecPoll == InitPoll /\ [][NextPoll]_vars

(***************************************************************************)
(* The decision index on its own: any sequence of DecisionSet.Insert and    *)
(* DecisionSet.Remove calls.  last.old is the number of ids the key had     *)
(* before the call.                                                         *)
(***************************************************************************)
DecisionKeys == { hashDecision(d) : d \in {NoDecision, D1, D2} }

Size(a, key) == IF key \in DOMAIN a THEN Cardinality(a[key]) ELSE 0

DecisionInsert(decision, id) ==
    /\ CurrentDump' = InsertToIndexDecision(CurrentDump, decision, id)
    /\ last' = [op |-> "Insert", id |-> id, buf |-> <<decision>>,
                old |-> Size(CurrentDump.decisionIdx, decision)]
    /\ UNCHANGED <<Stats, pc, reg, ContJournal, stats, scen, mode, tape, failed, hist,
                   lockVars, driverVars>>

DecisionRemove(decision, id) ==
    /\ CurrentDump' = RemoveFromIndexDecision(CurrentDump, decision, id)
    /\ last' = [op |-> "Remove", id |-> id, buf |-> <<decision>>,
                old |-> Size(CurrentDump.decisionIdx, decision)]
    /\ UNCHANGED <<Stats, pc, reg, ContJournal, stats, scen, mode, tape, failed, hist,
                   lockVars, driverVars>>

NextIndex ==
    \/ \E decision \in DecisionKeys, id \in {1, 2, 3} : DecisionInsert(decision, id)
    \/ \E decision \in DecisionKeys, id \in {1, 2, 3} : DecisionRemove(decision, id)

SpecIndex == Init /\ [][NextIndex]_vars

(***************************************************************************)
(* Properties.                                                              *)
(***************************************************************************)
Entries == CurrentDump.ContentIdx
Stored == DOMAIN Entries

\* id is in the id set that index a keeps for key
Has(a, key, id) == key \in DOMAIN a /\ id \in a[key]

\* the six resource types, the list and the index of each, and its normalizer
Kinds == {"ip4", "ip6", "subnet4", "subnet6", "domain", "url"}

List(e, kind) ==
    CASE kind = "ip4"     -> e.IP4
      [] kind = "ip6"     -> e.IP6
      [] kind = "subnet4" -> e.Subnet4
      [] kind = "subnet6" -> e.Subnet6
      [] kind = "domain"  -> e.Domain
      [] kind = "url"     -> e.URL

Index(dump, kind) ==
    CASE kind = "ip4"     -> dump.ip4Idx
      [] kind = "ip6"     -> dump.ip6Idx
      [] kind = "subnet4" -> dump.subnet4Idx
      [] kind = "subnet6" -> dump.subnet6Idx
      [] kind = "domain"  -> dump.domainIdx
      [] kind = "url"     -> dump.urlIdx

Normalize(kind, v) ==
    CASE kind = "domain" -> NormalizeDomain(v)
      [] kind = "url"    -> NormalizeURL(v)
      [] OTHER           -> v

\* the normalized keys of the values of a list
Keys(list, kind) == { Normalize(kind, list[i].v) : i \in 1..Len(list) }

\* C1: forward index consistency.  In every state between two operations of a
\* refresh, every value of each of the six resource lists of every stored
\* entry is indexed, under its normalized key, for the id of the entry in the
\* index of its type.
C1_ForwardIndexConsistency ==
    \A id \in Stored : \A kind \in Kinds :
        \A key \in Keys(List(Entries[id], kind), kind) : Has(Index(CurrentDump, kind), key, id)

\* C2: no dangling index reference.  Every (key, id) of each of the six
\* indexes belongs to a stored entry whose list of that type holds a value
\* that normalizes to the key.
C2_NoDanglingReference ==
    \A kind \in Kinds : \A key \in DOMAIN Index(CurrentDump, kind) :
        \A id \in Index(CurrentDump, kind)[key] :
            /\ id \in Stored
            /\ key \in Keys(List(Entries[id], kind), kind)

\* the step handles one <content> with this outcome
ContentStep(o) == pc = "content" /\ stats'.Count = stats.Count + 1 /\ last'.op = o

Tuples(list) == { list[i] : i \in 1..Len(list) }

\* C3: identity across update.  An update keeps the entry under its id, and
\* every value the entry had before that the new record lacks is no longer
\* indexed for the id in the index of its type.
C3_UpdateDropsAbsentValues ==
    [][ContentStep("updated") =>
          LET id == last'.id
              old == Entries[id]
              record == UnmarshalContent(last'.buf)
              dump == CurrentDump'
          IN  /\ id \in DOMAIN dump.ContentIdx
              /\ dump.ContentIdx[id].ID = id
              /\ \A kind \in Kinds :
                    \A key \in Keys(List(old, kind), kind) \ Keys(List(record, kind), kind) :
                        ~Has(Index(dump, kind), key, id)]_vars

\* C4: after an update every resource list of the entry holds exactly the
\* (value, ts) tuples of the incoming record.
C4_UpdateListsAreIncoming ==
    [][ContentStep("updated") =>
          LET new == CurrentDump'.ContentIdx[last'.id]
              record == UnmarshalContent(last'.buf)
          IN  \A kind \in Kinds : Tuples(List(new, kind)) = Tuples(List(record, kind))]_vars

\* C5: unchanged refresh.  When a record's id is stored with the same record
\* fingerprint, the entry's RegistryUpdateTime becomes the updateTime of the
\* <register> of the refresh that reads the record.
C5_TouchSetsRegisterTime ==
    (pc = "content" /\ last.op = "unchanged")
        => Entries[last.id].RegistryUpdateTime = reg.UpdateTime

\* a completed refresh has just been swept
Swept == pc = "idle" /\ last.op = "sweep"

\* the same dump has just been fed for the second time
FedAgain == Swept /\ mode = "again"

NoCounts(st) == st.AddCount = 0 /\ st.UpdateCount = 0 /\ st.RemoveCount = 0

\* C6 as claimed: fingerprint equivalence.  Feeding the bytes of a dump a
\* second time, whatever its records, counts no add, no update and no remove.
C6_ReingestCountsNothing == FedAgain => NoCounts(Stats)

\* no two records of the dump carry the same id in different bytes
OneBodyPerId(bufs) ==
    \A i, j \in 1..Len(bufs) : getContentId(bufs[i]) = getContentId(bufs[j]) => bufs[i] = bufs[j]

\* C6 as amended: feeding the bytes of a dump a second time counts no add, no
\* update and no remove when no id occurs in the dump with two different
\* record bodies.
C6_ReingestCountsNothingOneBody ==
    (FedAgain /\ OneBodyPerId(tape.bufs)) => NoCounts(Stats)

\* a dump of two records of one body per id was fed twice into a store that
\* holds entries, and its first feeding changed the store
C6_Witness ==
    /\ FedAgain
    /\ OneBodyPerId(tape.bufs)
    /\ Len(tape.bufs) >= 2
    /\ Stored # {}
    /\ \E i \in 1..Len(tape.bufs) :
          /\ getContentId(tape.bufs[i]) \in Stored
          /\ Entries[getContentId(tape.bufs[i])].RecordHash = Sum64(tape.bufs[i])

\* C7 as claimed: sweep completeness.  After the sweep of a completed refresh
\* the ids of the stored entries are the ids of the journal.
C7_StoredIsSeen == Swept => Stored = ContJournal

\* C7 as amended: after the sweep every stored id is in the journal, and an
\* id of the journal is not stored only if the refresh failed to decode a
\* record of it.
C7_StoredIsSeenAndDecoded ==
    Swept => /\ Stored \subseteq ContJournal
             /\ (ContJournal \ Stored) \subseteq failed

\* a sweep that deleted an entry, after a refresh that saw an id whose record
\* did not decode and that had no entry
C7_Witness ==
    /\ Swept
    /\ Stats.RemoveCount > 0
    /\ ContJournal \ Stored # {}

IdSet(a, key) == IF key \in DOMAIN a THEN a[key] ELSE {}

\* the IPv4-subnet values of the stored entries
Subnet4Values(dump) ==
    UNION { Keys(dump.ContentIdx[id].Subnet4, "subnet4") : id \in DOMAIN dump.ContentIdx }

\* C8: IPv6-subnet values use subnet6Idx only.  A step changes subnet4Idx
\* only at keys that are IPv4-subnet values of an entry before or after it;
\* after an add or an update the IPv6-subnet values of the record are in
\* subnet6Idx; the IPv6-subnet keys an update drops leave subnet6Idx.
C8_Subnet6UsesItsOwnIndex ==
    [][/\ \A key \in DOMAIN CurrentDump.subnet4Idx \cup DOMAIN CurrentDump'.subnet4Idx :
             IdSet(CurrentDump.subnet4Idx, key) # IdSet(CurrentDump'.subnet4Idx, key)
                 => key \in Subnet4Values(CurrentDump) \cup Subnet4Values(CurrentDump')
       /\ (ContentStep("added") \/ ContentStep("updated")) =>
             \A key \in Keys(UnmarshalContent(last'.buf).Subnet6, "subnet6") :
                 Has(CurrentDump'.subnet6Idx, key, last'.id)
       /\ ContentStep("updated") =>
             \A key \in Keys(Entries[last'.id].Subnet6, "subnet6")
                          \ Keys(UnmarshalContent(last'.buf).Subnet6, "subnet6") :
                 ~Has(CurrentDump'.subnet6Idx, key, last'.id)]_vars

\* C9: decision index consistency.  Every stored entry's id is under its
\* decision hash; after an update that changed the hash the id is not under
\* the old hash; after a sweep no id of a deleted entry is under any key.
C9_DecisionIndexConsistency ==
    /\ \A id \in Stored : Has(CurrentDump.decisionIdx, Entries[id].Decision, id)
    /\ (pc = "content" /\ last.op = "updated" /\ last.old # Entries[last.id].Decision)
           => ~Has(CurrentDump.decisionIdx, last.old, last.id)
    /\ Swept => \A key \in DOMAIN CurrentDump.decisionIdx :
                    CurrentDump.decisionIdx[key] \subseteq Stored

\* an update has changed the decision of an entry, and another entry is
\* still under the old hash
C9_Witness ==
    /\ pc = "content"
    /\ last.op = "updated"
    /\ last.old # Entries[last.id].Decision
    /\ last.old \in DOMAIN CurrentDump.decisionIdx

\* C10: pruning.  No call of Insert or Remove leaves a key with an empty id
\* set; a Remove of the only id of a key deletes the key; a Remove of a key
\* or of an id that is not there changes nothing.
C10_Pruning ==
    [][LET a == CurrentDump.decisionIdx
           b == CurrentDump'.decisionIdx
           key == last'.buf[1]
           id == last'.id
       IN  /\ \A k \in DOMAIN b : b[k] # {}
           /\ (last'.op = "Remove" /\ Has(a, key, id) /\ a[key] = {id}) => key \notin DOMAIN b
           /\ (last'.op = "Remove" /\ ~Has(a, key, id)) => b = a
           /\ last'.op = "Insert" => Has(b, key, id)]_vars

\* a Remove has taken the only id of a key, and another key is still there
C10_Witness ==
    /\ last.op = "Remove"
    /\ last.old = 1
    /\ last.buf[1] \notin DOMAIN CurrentDump.decisionIdx
    /\ DOMAIN CurrentDump.decisionIdx # {}

\* C11: no duplicates in resource lists.  No resource list of a stored entry
\* holds the same (value, ts) tuple at two places.
C11_NoDuplicateTuples ==
    \A id \in Stored : \A kind \in Kinds :
        LET l == List(Entries[id], kind)
        IN  \A i, j \in 1..Len(l) : l[i] = l[j] => i = j

\* the block type that the blockType attribute and a URL list call for
ExpectedBlockType(attr, urls) ==
    CASE attr = "ip"          -> "IP"
      [] attr = "domain"      -> "Domain"
      [] attr = "domain-mask" -> "Mask"
      [] OTHER -> IF \E i \in 1..Len(urls) : HasPrefixHTTPS(NormalizeURL(urls[i].v))
                  THEN "HTTPS" ELSE "URL"

\* C12: block-type derivation.  After an add or an update the entry's
\* BlockType is the one its record's blockType attribute and the URL list the
\* entry now stores call for.
C12_BlockTypeFromStoredURLs ==
    (pc = "content" /\ last.op \in {"added", "updated"})
        => Entries[last.id].BlockType
               = ExpectedBlockType(ShapeOf(last.buf).blockType, Entries[last.id].URL)

\* the step reads one <content> whose bytes do not decode
UndecodableStep ==
    /\ pc = "content"
    /\ stats'.Count = stats.Count + 1
    /\ ~ShapeOf(last'.buf).wellFormed

\* C13: record decode error.  A step that reads a record that does not decode
\* leaves the store and every index as they were, puts the id in the journal
\* and stays in the token loop; the sweep of the refresh keeps, unchanged,
\* every entry stored under an id of which a record did not decode.
C13_DecodeErrorSkipsRecord ==
    [][/\ UndecodableStep =>
             /\ CurrentDump' = CurrentDump
             /\ last'.id \in ContJournal'
             /\ pc' = "content"
       /\ last'.op = "sweep" =>
             \A id \in failed \cap Stored :
                 id \in DOMAIN CurrentDump'.ContentIdx
                     /\ CurrentDump'.ContentIdx[id] = Entries[id]]_vars

\* a completed refresh whose records were all of a stored id, one of them
\* failing to decode; the entry is still there after the sweep
C13_Witness ==
    /\ Swept
    /\ failed \cap Stored # {}
    /\ Stats.Count > 0
    /\ Stats.AddCount = 0
    /\ Stats.UpdateCount = 0

\* the dotted quads of the universe
WellFormedIPv4(s) == s \in {"10.0.0.1", "10.0.0.2", "10.0.0.3"}

\* the addresses of the well-formed <ip> elements of a record
GoodIP4(contBuf) ==
    LET ips == Collect(ShapeOf(contBuf).elems, "ip", 1)
    IN  { IPv4StrToInt(ips[i].v) : i \in { k \in 1..Len(ips) : WellFormedIPv4(ips[k].v) } }

\* C14: value parse error.  After the add of a record, the entry's IP4 list
\* and the keys ip4Idx has for the id are the addresses of the record's
\* well-formed <ip> elements: a malformed literal leaves no element and no
\* key.
C14_MalformedIPv4Dropped ==
    (pc = "content" /\ last.op = "added")
        => /\ Keys(Entries[last.id].IP4, "ip4") = GoodIP4(last.buf)
           /\ { k \in DOMAIN CurrentDump.ip4Idx : last.id \in CurrentDump.ip4Idx[k] }
                  = GoodIP4(last.buf)

\* C15: stream error.  A step in which Parse returns a stream error leaves
\* the store, the indexes, the global update time and the published
\* statistics as they were; and only the sweep of a completed refresh
\* deletes an entry, sets the global update time or publishes statistics.
C15_StreamErrorKeepsPrefix ==
    [][/\ (pc # "idle" /\ last'.op = "error") =>
             /\ CurrentDump' = CurrentDump
             /\ Stats' = Stats
             /\ pc' = "idle"
       /\ last'.op # "sweep" =>
             /\ Stored \subseteq DOMAIN CurrentDump'.ContentIdx
             /\ CurrentDump'.utime = CurrentDump.utime
             /\ Stats' = Stats]_vars

\* Parse has returned a stream error after it added an entry, in a run in
\* which no refresh that read a record has completed
C15_Witness ==
    /\ pc = "idle"
    /\ last.op = "error"
    /\ Stored # {}
    /\ Stats.Count = 0
    /\ CurrentDump.utime = NoTime

\* the six resource indexes and the decision index
AllIndexes == Kinds \cup {"decision"}

AnyIndex(dump, kind) == IF kind = "decision" THEN dump.decisionIdx ELSE Index(dump, kind)

\* C17: sweep frame.  The sweep deletes the stored entries whose id is not in
\* the journal and no other; it takes only ids of deleted entries out of
\* index value sets and adds none; every entry it keeps has the same lists,
\* the same decision hash and the same membership in every value set as
\* before; a key goes only when every id it had was deleted.
C17_SweepFrame ==
    [][last'.op = "sweep" =>
          LET dump == CurrentDump'
              kept == DOMAIN dump.ContentIdx
              gone == Stored \ kept
          IN  /\ kept = Stored \cap ContJournal
              /\ \A id \in kept :
                    /\ \A kind \in Kinds : List(dump.ContentIdx[id], kind) = List(Entries[id], kind)
                    /\ dump.ContentIdx[id].Decision = Entries[id].Decision
              /\ \A kind \in AllIndexes :
                    LET a == AnyIndex(CurrentDump, kind)
                        b == AnyIndex(dump, kind)
                    IN  /\ DOMAIN b \subseteq DOMAIN a
                        /\ \A key \in DOMAIN a :
                              /\ IdSet(b, key) \subseteq a[key]
                              /\ a[key] \ IdSet(b, key) \subseteq gone
                              /\ key \notin DOMAIN b => a[key] \subseteq gone]_vars

\* a sweep has deleted one of two entries that shared a key of a resource
\* index (the largest id set had two ids before it); the other entry is
\* still stored and still under its domain key
C17_Witness ==
    /\ Swept
    /\ Stats.RemoveCount = 1
    /\ last.old = Cardinality(Stored) + 1
    /\ Stats.MaxIDSetLen = Cardinality(Stored)
    /\ \E id \in Stored : Has(CurrentDump.domainIdx, "x.test", id)

Reading(rs) == { r \in Readers : rs[r] = "reading" }

\* C16: writer exclusion.  Every step of a refresh that writes the entry
\* store, an index, the decision index or the global update time is taken
\* with the exclusive lock held before and after it, and no reader holds the
\* shared lock while the exclusive lock is held: what a reader sees between
\* RLock and RUnlock does not change.
C16_WriterExclusion ==
    [][/\ CurrentDump' # CurrentDump => (mu.w /\ mu'.w)
       /\ mu'.w => Reading(readers') = {}
       /\ (Reading(readers) \cap Reading(readers') # {}) => CurrentDump' = CurrentDump]_vars

\* the sweep has purged an entry and not yet set the global update time,
\* the lock is held and a reader waits for it
C16_Witness ==
    /\ pc = "purged"
    /\ mu.w
    /\ hist.deleted > 0
    /\ CurrentDump.utime # reg.UpdateTime
    /\ \E r \in Readers : readers[r] = "waiting"

\* C19: lock release.  Parse holds no lock in its token loop, whatever the
\* outcome of the record before, and none when it has returned, normally or
\* with a stream error; a reader that waits for the shared lock is let in.
C19_LockRelease ==
    /\ [](pc \in Positions \ Held => ~mu.w)
    /\ \A r \in Readers : (readers[r] = "waiting") ~> (readers[r] = "reading")

\* a record of a stored id has failed to decode, the lock is free again and
\* a reader has been let in
C19_Witness ==
    /\ pc = "content"
    /\ last.op = "decodeError"
    /\ last.id \in Stored
    /\ ~mu.w
    /\ \E r \in Readers : readers[r] = "reading"

\* a step of the driver is a call of DumpRefresh whose two lookups succeed
Looked == drv.pc = "idle" /\ pc = "idle" /\ drv'.meta = "ok"

\* the call has started the full Parse
RanParse == pc' = "register" /\ drv'.pc = "parsing"

\* the call has run the touch-only path
RanTouch ==
    /\ drv'.ran = "touch"
    /\ pc' = "idle"
    /\ CurrentDump' = Parse2(CurrentDump, drv'.lastDump.UpdateTime)

\* the three refresh modes of a call, from its inputs and dir/current
Modes ==
    LET lastDump == drv'.lastDump
    IN  /\ RanParse <=> (lastDump.CRC # current.CRC /\ drv'.io = "ok")
        /\ RanTouch <=> (lastDump.CRC = current.CRC /\ lastDump.ID # current.ID)
        /\ (lastDump.CRC = current.CRC /\ lastDump.ID = current.ID)
                => /\ ~RanParse
                   /\ ~RanTouch
                   /\ UNCHANGED <<CurrentDump, Stats, pc, current>>

\* C20 as stated: a call of DumpRefresh runs the full Parse if and only if
\* the remote CRC differs from the cached one and fetch, unzip and open
\* succeed, the touch-only path if and only if the CRCs are equal and the ids
\* differ, and with both equal it runs neither and changes nothing.
C20_RefreshModes == [][Looked => Modes]_vars

\* C20, amended: the same for a call whose remote dump id is not empty.
C20_RefreshModesOfNamedDump == [][(Looked /\ drv'.lastDump.ID # "") => Modes]_vars

\* the touch-only path has run on a store that a full Parse filled and
\* recorded in dir/current: an entry carries the new dump's update time
C20_Witness ==
    /\ drv.pc = "idle"
    /\ drv.ran = "touch"
    /\ current.ID \notin {"", drv.lastDump.ID}
    /\ current.CRC = drv.lastDump.CRC
    /\ \E id \in Stored :
            /\ Entries[id].RegistryUpdateTime = drv.lastDump.UpdateTime
            /\ Entries[id].RegistryUpdateTime # CurrentDump.utime

\* the call of DumpRefresh that has just returned found the remote dump and
\* the cache, and failed to fetch, unzip, open or parse the dump
FailedCall ==
    /\ drv.pc = "idle"
    /\ pc = "idle"
    /\ drv.meta = "ok"
    /\ \/ drv.io \in {"fetchErr", "unzipErr", "openErr"}
       \/ drv.ran = "parse" /\ last.op = "error"

\* C21: the cached metadata is written only when Parse has returned without
\* an error, and then with the id and the CRC of the remote dump; a call that
\* follows a failed one and finds the same remote dump gets to FetchDump
\* again.
C21_CacheWrittenAfterParse ==
    [][/\ current' # current
            => /\ drv.pc = "parsing"
               /\ pc = "idle"
               /\ last.op = "sweep"
               /\ current' = [ID |-> drv.lastDump.ID, CRC |-> drv.lastDump.CRC]
       /\ (FailedCall /\ drv'.lastDump = drv.lastDump /\ drv'.meta = "ok")
            => drv'.io # "none"]_vars

\* a failed refresh has left an entry in the store and the cache as it was;
\* the next call finds the same remote dump and has started Parse again
C21_Witness ==
    /\ drv.pc = "parsing"
    /\ pc = "register"
    /\ drv.prev = "failed"
    /\ hist.before > 0
    /\ current = NoCurrent

\* C22: a call of DumpRefresh that follows one that took the touch-only path
\* and finds the same remote dump runs neither the full Parse nor the
\* touch-only path.
C22_TouchOnlyOnce ==
    [][(/\ drv.pc = "idle"
        /\ pc = "idle"
        /\ drv.meta = "ok"
        /\ drv.ran = "touch"
        /\ drv'.lastDump = drv.lastDump
        /\ drv'.meta = "ok")
            => drv'.ran = "none"]_vars

\* C23: once DumpPoll has stopped the server and sent on the done channel,
\* no timer expiry makes it call DumpRefresh.
C23_NoRefreshAfterShutdown == (poll.stopped /\ poll.sent) => poll.pc # "call"

====
